---- MODULE Spec2Model ----
(***************************************************************************)
(* backyardBackup: the backup orchestration engine.                        *)
(*                                                                         *)
(* The model covers the streaming transfer pipeline of FullBackup.Backup   *)
(* and IncrementalBackup.Backup (an io.Pipe between a producer goroutine   *)
(* running DB.Backup and Storage.Store running in the caller), the         *)
(* symmetric pipeline of SelectiveRestorer.Restore, the storage providers  *)
(* (local file system with sidecar metadata, S3 with object metadata),     *)
(* the catalog rebuilt by ListBackups, and the signal handler of main.     *)
(***************************************************************************)
EXTENDS Integers, Sequences, FiniteSets, TLC

\* ---------------------------------------------------------------- bounds
\* Number of Backup and Restore invocations of one behaviour.
MaxOps == 2
\* Largest number of bytes a dump produces.
MaxDump == 3
\* Largest number of bytes handed to one Write call by the producer.
ChunkMax == 2
\* Size of the buffer the consumer passes to Read.
ReadBuf == 1
\* Number of invocations of one behaviour of the catalog operations.
MaxCatalogOps == 3
\* Clock ticks per second: time.Now() is finer than the whole seconds that
\* time.RFC3339 and the path stamp "20060102-150405" keep.
TicksPerSec == 2

\* ------------------------------------------------------------- constants
Full == "full"
Incremental == "incremental"
Differential == "differential"

\* Source database names a caller passes as opts.SourceDB.
DBNames == <<"other", "test">>
\* The kind directories of the storage path, in lexical order.
KindNames == <<Full, Incremental>>
\* The two file suffixes Backup generates, in lexical order.
ExtNames == <<"db", "db.gz">>

Providers == {"local", "s3"}

NoMeta == [k \in {} |-> ""]

Min(a, b) == IF a < b THEN a ELSE b

RankIn(seq, x) == CHOOSE i \in 1..Len(seq) : seq[i] = x

VARIABLES
    provider,    \* which storage.Provider the strategy was built with
    storage,     \* path -> [data, meta]: the objects of the provider
    now,         \* the clock, in ticks
    usedIds,     \* uuids handed out so far
    nOps,        \* Backup and Restore invocations started
    compressOpt, \* the -compress flag of the commands
    inv,         \* the parameters of the invocation in progress
    callerPc,    \* position of the caller of Backup / Restore
    prodPc,      \* position of the producer goroutine
    prodErr,     \* outcome of the producer's DB.Backup / Storage.Retrieve
    errCh,       \* the completion channel (capacity 1)
    pending,     \* bytes of the producer's blocked pipe Write not yet read
    wclosed,     \* the pipe's write end was closed
    produced,    \* bytes the producer handed to the pipe
    received,    \* bytes the consumer read from the pipe
    consErr,     \* the consumer (Store / DB.Restore) returned an error
    result,      \* what the last invocation returned to its caller
    restores,    \* SelectiveRestorer.restores
    calls,       \* calls made by the invocation in progress, per operation
    ctxCancelled,\* the context of the command was cancelled
    sigPc,       \* position of the signal-handler goroutine
    conn,        \* the SQLiteConnector: its db field and the handles it opened
    sched,       \* the Scheduler: its mutex, its tasks slice, the calling goroutines
    rcalls       \* the goroutines calling one SelectiveRestorer concurrently

vars == <<provider, storage, now, usedIds, nOps, compressOpt, inv, callerPc,
          prodPc, prodErr, errCh, pending, wclosed, produced, received,
          consErr, result, restores, calls, ctxCancelled, sigPc, conn, sched,
          rcalls>>

\* The state of the strategies, the pipeline and the command.
coreVars == <<provider, storage, now, usedIds, nOps, compressOpt, inv, callerPc,
              prodPc, prodErr, errCh, pending, wclosed, produced, received,
              consErr, result, restores, calls, ctxCancelled, sigPc>>

\* The state of the collaborators the backup and restore strategies never
\* touch directly.
sideVars == <<conn, sched, rcalls>>

\* ------------------------------------------------------------------ time
\* startTime.Format("20060102-150405"): the stamp keeps whole seconds.
FormatStamp(t) == t \div TicksPerSec

\* startTime.Format(time.RFC3339): whole seconds, as a string.
FormatRFC3339(t) == ToString(t \div TicksPerSec)

\* Every instant of a behaviour: each invocation moves the clock by at most
\* one second.
Instants == 0..(TicksPerSec * (MaxOps + 2))

\* time.Parse(time.RFC3339, s) with the error dropped: the zero time when s
\* is no timestamp.
ParseRFC3339(s) ==
    IF \E t \in Instants : t % TicksPerSec = 0 /\ FormatRFC3339(t) = s
    THEN CHOOSE t \in Instants : t % TicksPerSec = 0 /\ FormatRFC3339(t) = s
    ELSE 0

\* uuid.New().String(): the uuid whose rank in lexical order is i.
UuidStr(i) == "u" \o ToString(i)

\* The uuids a new invocation can draw: any first one, then one that sorts
\* before or after all those in use.
FreshIds(used) ==
    IF used = {} THEN {MaxOps}
    ELSE {(CHOOSE i \in used : \A j \in used : i <= j) - 1,
          (CHOOSE i \in used : \A j \in used : i >= j) + 1}

\* ------------------------------------------------------------------ paths
DBType == "sqlite"

NoPath == [engine |-> "", db |-> "", kind |-> "", stamp |-> 0, id |-> 0, ext |-> ""]

\* filepath.Join(type, opts.SourceDB, kind, "<stamp>-<id>.db") [+ ".gz"]
BackupPath(db, kind, start, id, compress) ==
    [engine |-> DBType, db |-> db, kind |-> kind, stamp |-> FormatStamp(start),
     id |-> id, ext |-> IF compress THEN "db.gz" ELSE "db"]

isBackupFile(path) == path.ext \in {"db", "db.gz"}

PathKey(p) == <<RankIn(DBNames, p.db), RankIn(KindNames, p.kind), p.stamp, p.id,
                RankIn(ExtNames, p.ext)>>

RECURSIVE KeyLess(_, _, _)
KeyLess(a, b, i) ==
    IF i > Len(a) THEN FALSE
    ELSE IF a[i] # b[i] THEN a[i] < b[i]
    ELSE KeyLess(a, b, i + 1)

\* Lexical order of two storage paths.
PathLess(p, q) == KeyLess(PathKey(p), PathKey(q), 1)

\* The paths of S in lexical order (the order of filepath.Walk and of an S3
\* listing).
RECURSIVE SortedPaths(_)
SortedPaths(S) ==
    IF S = {} THEN <<>>
    ELSE LET m == CHOOSE p \in S : \A q \in S \ {p} : PathLess(p, q)
         IN <<m>> \o SortedPaths(S \ {m})

\* --------------------------------------------------------------- metadata
\* m[k] of a Go map: the empty string when the key is absent.
MetaGet(m, k) == IF k \in DOMAIN m THEN m[k] ELSE ""

BoolStr(b) == IF b THEN "true" ELSE "false"

\* The metadata map FullBackup.Backup passes to Storage.Store.
FullMetadataMap(id, db, start, compress) ==
    [backup_type |-> Full, backup_id |-> UuidStr(id), source_db |-> db,
     start_time |-> FormatRFC3339(start), metadata |-> "json",
     is_compressed |-> BoolStr(compress)]

\* The metadata map IncrementalBackup.Backup passes to Storage.Store.
IncrementalMetadataMap(id, db, start, compress, base) ==
    [backup_type |-> Incremental, base_backup |-> base, backup_id |-> UuidStr(id),
     source_db |-> db, start_time |-> FormatRFC3339(start), metadata |-> "json",
     is_compressed |-> BoolStr(compress)]

\* --------------------------------------------------------------- provider
\* LocalProvider reading "<path>.metadata": when json.Unmarshal succeeds the
\* map just read is replaced by make(map[string]string).
LocalReadMetadata(sidecar) == NoMeta

\* S3Provider: head.Metadata of HeadObject.
S3ReadMetadata(objmeta) == objmeta

\* Provider.GetInfo(path) of an existing object.
GetInfo(prov, store, path) ==
    [Path |-> path,
     Size |-> Len(store[path].data),
     Metadata |-> IF prov = "local" THEN LocalReadMetadata(store[path].meta)
                  ELSE S3ReadMetadata(store[path].meta)]

\* Provider.List(""): every object, in lexical order of the paths.
List(store) == SortedPaths(DOMAIN store)

\* ---------------------------------------------------------------- catalog
\* The BackupResult ListBackups builds from one object's FileInfo.
RecordOf(info) ==
    [ID |-> MetaGet(info.Metadata, "backup_id"),
     Type |-> MetaGet(info.Metadata, "backup_type"),
     StartTime |-> ParseRFC3339(MetaGet(info.Metadata, "start_time")),
     Size |-> info.Size,
     StoragePath |-> info.Path,
     IsCompressed |-> (MetaGet(info.Metadata, "is_compressed") = "true"),
     Success |-> TRUE]

RECURSIVE ListFrom(_, _, _)
ListFrom(prov, store, files) ==
    IF files = <<>> THEN <<>>
    ELSE (IF isBackupFile(Head(files))
          THEN <<RecordOf(GetInfo(prov, store, Head(files)))>>
          ELSE <<>>) \o ListFrom(prov, store, Tail(files))

\* FullBackup.ListBackups / IncrementalBackup.ListBackups.
ListBackups(prov, store) == ListFrom(prov, store, List(store))

\* GetBackup(id): the first record of the listing whose ID is id.
GetBackupFound(prov, store, id) ==
    \E i \in 1..Len(ListBackups(prov, store)) : ListBackups(prov, store)[i].ID = id

GetBackup(prov, store, id) ==
    LET l == ListBackups(prov, store)
        i == CHOOSE j \in 1..Len(l) : l[j].ID = id /\ \A k \in 1..(j - 1) : l[k].ID # id
    IN l[i]

\* findLatestFullBackup: the scan over the listing; <<>> when it ends nil.
RECURSIVE LatestFrom(_, _)
LatestFrom(l, latest) ==
    IF l = <<>> THEN latest
    ELSE LatestFrom(Tail(l),
            IF Head(l).Type = Full
               /\ (latest = <<>> \/ Head(l).StartTime > latest[1].StartTime)
            THEN <<Head(l)>> ELSE latest)

findLatestFullBackup(prov, store, dbName) == LatestFrom(ListBackups(prov, store), <<>>)

\* ------------------------------------------------------------------ state
NoInv == [op |-> "none", kind |-> "", db |-> "", compress |-> FALSE, id |-> 0,
          start |-> 0, path |-> NoPath, base |-> "", meta |-> NoMeta, src |-> <<>>,
          variant |-> "pipe"]

NoResult == [op |-> "none", isNil |-> TRUE, err |-> "", ID |-> "", Type |-> "",
             StartTime |-> 0, Size |-> 0, StoragePath |-> NoPath,
             IsCompressed |-> FALSE, Success |-> FALSE, ErrorMessage |-> "",
             List |-> <<>>]

\* The goroutines that call the scheduler.
Threads == {1, 2}

\* A goroutine that is not in a call.
NoThread == [pc |-> "idle", op |-> "", arg |-> "", local |-> [arr |-> 0, len |-> 0],
             seen |-> <<>>, ret |-> [arr |-> 0, len |-> 0], found |-> FALSE]

\* NewScheduler: tasks is []*BackupTask{}, the mutex is free (0). A slice is
\* a backing array (0: none) and a length; arrays holds the backing arrays.
NoSched == [mu |-> 0, tasks |-> [arr |-> 0, len |-> 0], arrays |-> <<>>,
            thr |-> [t \in Threads |-> NoThread], n |-> 0]

\* A goroutine that is not in a call of the restorer.
NoRCall == [pc |-> "idle", op |-> "", id |-> "", raced |-> FALSE,
            res |-> [Success |-> FALSE, ErrorMessage |-> ""], got |-> <<>>]

\* No call was made to the restorer; the process has not been stopped by the
\* runtime.
NoRCalls == [thr |-> [t \in Threads |-> NoRCall], n |-> 0, fatal |-> FALSE]

\* &SQLiteConnector{}: db is nil (0) and no handle was ever opened.
NoConn == [db |-> 0, handles |-> <<>>, err |-> ""]

NoCalls == [dbBackup |-> 0, store |-> 0, retrieve |-> 0, dbRestore |-> 0]

\* (nil, err) returned by Backup or Restore.
NilResult(op, err) == [NoResult EXCEPT !.op = op, !.err = err]

Init ==
    /\ provider \in Providers
    /\ storage = [p \in {} |-> 0]
    /\ now = TicksPerSec
    /\ usedIds = {}
    /\ nOps = 0
    /\ compressOpt \in BOOLEAN
    /\ inv = NoInv
    /\ callerPc = "idle"
    /\ prodPc = "idle"
    /\ prodErr = FALSE
    /\ errCh = <<>>
    /\ pending = <<>>
    /\ wclosed = FALSE
    /\ produced = <<>>
    /\ received = <<>>
    /\ consErr = FALSE
    /\ result = NoResult
    /\ restores = [i \in {} |-> 0]
    /\ calls = NoCalls
    /\ ctxCancelled = FALSE
    /\ sigPc = "waiting"
    /\ conn = NoConn
    /\ sched = NoSched
    /\ rcalls = NoRCalls

\* The process is running (os.Exit was not called).
Alive == sigPc # "exited"

\* No invocation is between its call and its return.
CallerFree == callerPc \in {"idle", "returned"} \/ ~Alive

\* The producer of the previous invocation is blocked in a pipe Write that
\* nobody will ever read.
ProducerStuck == prodPc = "writing" /\ pending # <<>>

\* A fresh pipe, a fresh completion channel, a fresh process context.
FreshPipeline ==
    /\ errCh' = <<>>
    /\ pending' = <<>>
    /\ wclosed' = FALSE
    /\ produced' = <<>>
    /\ received' = <<>>
    /\ consErr' = FALSE
    /\ prodErr' = FALSE
    /\ calls' = NoCalls
    /\ ctxCancelled' = FALSE
    /\ sigPc' = "waiting"

\* A new invocation can start: the caller is free and the previous producer
\* has ended or is stuck for good (a new process starts with none).
CanStart == CallerFree /\ (prodPc \in {"idle", "done"} \/ ProducerStuck \/ ~Alive)

\* FullBackup.Backup up to the start of the producer goroutine.
FullBackupStart(db, compress, id, d, tablesOk) ==
    /\ CanStart
    /\ nOps < MaxOps
    /\ id \in FreshIds(usedIds)
    /\ nOps' = nOps + 1
    /\ now' = now + d
    /\ usedIds' = usedIds \cup {id}
    /\ FreshPipeline
    /\ UNCHANGED <<provider, compressOpt, sideVars, storage, restores>>
    /\ IF tablesOk
       THEN /\ inv' = [NoInv EXCEPT !.op = "backup", !.kind = Full, !.db = db,
                          !.compress = compress, !.id = id, !.start = now',
                          !.path = BackupPath(db, Full, now', id, compress),
                          !.meta = FullMetadataMap(id, db, now', compress)]
            /\ callerPc' = "store"
            /\ prodPc' = "start"
            /\ result' = NoResult
       ELSE /\ inv' = [NoInv EXCEPT !.op = "backup", !.kind = Full, !.db = db,
                          !.compress = compress, !.id = id, !.start = now']
            /\ callerPc' = "returned"
            /\ prodPc' = "idle"
            /\ result' = NilResult("backup", "list_tables")

\* IncrementalBackup.Backup up to the start of the producer goroutine.
IncrementalBackupStart(db, compress, id, d, tablesOk) ==
    LET base == findLatestFullBackup(provider, storage, db) IN
    /\ CanStart
    /\ nOps < MaxOps
    /\ id \in FreshIds(usedIds)
    /\ nOps' = nOps + 1
    /\ FreshPipeline
    /\ UNCHANGED <<provider, compressOpt, sideVars, storage, restores>>
    /\ IF base = <<>>
       THEN /\ inv' = [NoInv EXCEPT !.op = "backup", !.kind = Incremental, !.db = db,
                          !.compress = compress]
            /\ callerPc' = "returned"
            /\ prodPc' = "idle"
            /\ result' = NilResult("backup", "no_base_backup")
            /\ UNCHANGED <<now, usedIds>>
       ELSE /\ now' = now + d
            /\ usedIds' = usedIds \cup {id}
            /\ IF tablesOk
               THEN /\ inv' = [NoInv EXCEPT !.op = "backup", !.kind = Incremental,
                                  !.db = db, !.compress = compress, !.id = id,
                                  !.start = now', !.base = base[1].ID,
                                  !.path = BackupPath(db, Incremental, now', id, compress),
                                  !.meta = IncrementalMetadataMap(id, db, now', compress,
                                                                  base[1].ID)]
                    /\ callerPc' = "store"
                    /\ prodPc' = "start"
                    /\ result' = NoResult
               ELSE /\ inv' = [NoInv EXCEPT !.op = "backup", !.kind = Incremental,
                                  !.db = db, !.compress = compress, !.id = id,
                                  !.start = now', !.base = base[1].ID]
                    /\ callerPc' = "returned"
                    /\ prodPc' = "idle"
                    /\ result' = NilResult("backup", "list_tables")

\* DifferentialBackup.Backup: the stub returns before any work.
DifferentialBackupStart(db, compress) ==
    /\ CanStart
    /\ nOps < MaxOps
    /\ nOps' = nOps + 1
    /\ FreshPipeline
    /\ inv' = [NoInv EXCEPT !.op = "backup", !.kind = Differential, !.db = db,
                  !.compress = compress]
    /\ callerPc' = "returned"
    /\ prodPc' = "idle"
    /\ result' = NilResult("backup", "not_implemented")
    /\ UNCHANGED <<provider, compressOpt, sideVars, storage, now, usedIds, restores>>

\* ------------------------------------------------------ producer goroutine
pipeVars == <<errCh, pending, wclosed, produced, received, consErr, prodErr>>
worldVars == <<provider, compressOpt, sideVars, now, usedIds, nOps, ctxCancelled, sigPc>>

\* The bytes the producer writes next: a dump numbers its bytes, a retrieval
\* copies the stored object.
NextChunk(n) ==
    IF inv.op = "backup"
    THEN [i \in 1..n |-> Len(produced) + i]
    ELSE SubSeq(inv.src, Len(produced) + 1, Len(produced) + n)

\* How many bytes the producer can still write.
ProducerLeft ==
    IF inv.op = "backup" THEN MaxDump - Len(produced)
    ELSE Len(inv.src) - Len(produced)

\* go func(): the goroutine calls DB.Backup(ctx, pw, tables), or
\* Storage.Retrieve(ctx, path, pw).
ProdBegin ==
    /\ Alive
    /\ prodPc = "start"
    /\ prodPc' = "run"
    /\ calls' = IF inv.op = "backup"
                THEN [calls EXCEPT !.dbBackup = @ + 1]
                ELSE [calls EXCEPT !.retrieve = @ + 1]
    /\ UNCHANGED <<storage, inv, callerPc, result, restores, pipeVars, worldVars>>

\* pw.Write(chunk): the bytes are offered to the reader and the producer
\* blocks until all of them were read.
ProdWrite(n) ==
    /\ Alive
    /\ prodPc = "run"
    /\ n <= ProducerLeft
    /\ pending' = NextChunk(n)
    /\ produced' = produced \o NextChunk(n)
    /\ prodPc' = "writing"
    /\ UNCHANGED <<storage, inv, callerPc, result, restores, calls, worldVars,
                   errCh, wclosed, received, consErr, prodErr>>

\* A pipe whose Write returns without waiting for the reader: the next
\* Write replaces the bytes that were not read.
ProdWriteReturn_NoBlock ==
    /\ Alive
    /\ prodPc = "writing"
    /\ prodPc' = "run"
    /\ UNCHANGED <<storage, inv, callerPc, result, restores, calls, pipeVars, worldVars>>

\* pw.Write returns: every byte of the chunk was read.
ProdWriteReturn ==
    /\ Alive
    /\ prodPc = "writing"
    /\ pending = <<>>
    /\ prodPc' = "run"
    /\ UNCHANGED <<storage, inv, callerPc, result, restores, calls, pipeVars, worldVars>>

\* A goroutine that calls DB.Backup / Storage.Retrieve again when it
\* returned an error.
ProdReturn_Retry(err) ==
    /\ Alive
    /\ prodPc = "run"
    /\ (inv.op = "restore" /\ ~err) => ProducerLeft = 0
    /\ prodErr' = err
    /\ prodPc' = IF err THEN "start" ELSE "send"
    /\ UNCHANGED <<storage, inv, callerPc, result, restores, calls, worldVars,
                   errCh, pending, wclosed, produced, received, consErr>>

\* DB.Backup / Storage.Retrieve returns, with or without an error. A
\* retrieval succeeds only at the end of the object.
ProdReturn(err) ==
    /\ Alive
    /\ prodPc = "run"
    /\ (inv.op = "restore" /\ ~err) => ProducerLeft = 0
    /\ prodErr' = err
    /\ prodPc' = "send"
    /\ UNCHANGED <<storage, inv, callerPc, result, restores, calls, worldVars,
                   errCh, pending, wclosed, produced, received, consErr>>

\* A send on a completion channel without buffer: it waits for the receiver.
ProdSend_Unbuffered ==
    /\ Alive
    /\ prodPc = "send"
    /\ callerPc = "wait"
    /\ Len(errCh) < 1
    /\ errCh' = Append(errCh, prodErr)
    /\ prodPc' = "close"
    /\ UNCHANGED <<storage, inv, callerPc, result, restores, calls, worldVars,
                   pending, wclosed, produced, received, consErr, prodErr>>

\* errCh <- err (or nil): the channel has capacity 1.
ProdSend ==
    /\ Alive
    /\ prodPc = "send"
    /\ Len(errCh) < 1
    /\ errCh' = Append(errCh, prodErr)
    /\ prodPc' = "close"
    /\ UNCHANGED <<storage, inv, callerPc, result, restores, calls, worldVars,
                   pending, wclosed, produced, received, consErr, prodErr>>

\* A goroutine that closes the pipe only when its transfer succeeded.
ProdClose_OnlyOnSuccess ==
    /\ Alive
    /\ prodPc = "close"
    /\ wclosed' = ~prodErr
    /\ prodPc' = "done"
    /\ UNCHANGED <<storage, inv, callerPc, result, restores, calls, worldVars,
                   errCh, pending, produced, received, consErr, prodErr>>

\* defer pw.Close(): runs when the goroutine's function returns.
ProdClose ==
    /\ Alive
    /\ prodPc = "close"
    /\ wclosed' = TRUE
    /\ prodPc' = "done"
    /\ UNCHANGED <<storage, inv, callerPc, result, restores, calls, worldVars,
                   errCh, pending, produced, received, consErr, prodErr>>

\* ------------------------------------------------------------ Storage.Store
\* Backup returns (nil, err).
ReturnNil(err) ==
    /\ callerPc' = "returned"
    /\ result' = NilResult(inv.op, err)

\* Store begins. LocalProvider: MkdirAll and os.Create (the file exists,
\* empty, from here on; a sidecar of an earlier object at the path stays).
\* S3Provider: PutObject starts reading the body.
StoreCreate(ok) ==
    /\ Alive
    /\ inv.op = "backup"
    /\ callerPc = "store"
    /\ calls' = [calls EXCEPT !.store = @ + 1]
    /\ IF ok
       THEN /\ callerPc' = "copy"
            /\ storage' = IF provider = "local"
                          THEN (inv.path :> [data |-> <<>>,
                                             meta |-> IF inv.path \in DOMAIN storage
                                                      THEN storage[inv.path].meta
                                                      ELSE NoMeta]) @@ storage
                          ELSE storage
            /\ UNCHANGED <<result, consErr>>
       ELSE /\ ReturnNil("store")
            /\ consErr' = TRUE
            /\ UNCHANGED storage
    /\ UNCHANGED <<inv, prodPc, restores, worldVars,
                   errCh, pending, wclosed, produced, received, prodErr>>

\* The bytes one Read of the pipe returns.
ReadCount == Min(ReadBuf, Len(pending))

\* io.Copy in Store: one Read of the pipe and one Write to the object. A
\* failed write ends Store with an error.
StoreRead(ok) ==
    /\ Alive
    /\ inv.op = "backup"
    /\ callerPc = "copy"
    /\ pending # <<>>
    /\ pending' = SubSeq(pending, ReadCount + 1, Len(pending))
    /\ received' = received \o SubSeq(pending, 1, ReadCount)
    /\ IF ok
       THEN /\ storage' = IF provider = "local"
                          THEN [storage EXCEPT ![inv.path].data =
                                                  @ \o SubSeq(pending, 1, ReadCount)]
                          ELSE storage
            /\ UNCHANGED <<callerPc, result, consErr>>
       ELSE /\ ReturnNil("store")
            /\ consErr' = TRUE
            /\ UNCHANGED storage
    /\ UNCHANGED <<inv, prodPc, restores, calls, worldVars,
                   errCh, wclosed, produced, prodErr>>

\* Read returns io.EOF: the write end is closed and nothing is pending.
StoreEOF ==
    /\ Alive
    /\ inv.op = "backup"
    /\ callerPc = "copy"
    /\ pending = <<>>
    /\ wclosed
    /\ callerPc' = "meta"
    /\ UNCHANGED <<storage, inv, prodPc, result, restores, calls, pipeVars, worldVars>>

\* The end of Store. LocalProvider writes "<path>.metadata"; S3Provider's
\* PutObject completes and the object appears with its metadata.
StoreMeta(ok) ==
    /\ Alive
    /\ inv.op = "backup"
    /\ callerPc = "meta"
    /\ IF ok
       THEN /\ callerPc' = "wait"
            /\ storage' = IF provider = "local"
                          THEN [storage EXCEPT ![inv.path].meta = inv.meta]
                          ELSE (inv.path :> [data |-> received, meta |-> inv.meta])
                               @@ storage
            /\ UNCHANGED <<result, consErr>>
       ELSE /\ ReturnNil("store")
            /\ consErr' = TRUE
            /\ UNCHANGED storage
    /\ UNCHANGED <<inv, prodPc, restores, calls, worldVars,
                   errCh, pending, wclosed, produced, received, prodErr>>

\* A Backup that receives the producer's outcome and does not look at it.
BackupWait_IgnoreOutcome ==
    /\ Alive
    /\ inv.op = "backup"
    /\ inv.variant = "pipe"
    /\ callerPc = "wait"
    /\ errCh # <<>>
    /\ errCh' = Tail(errCh)
    /\ callerPc' = "info"
    /\ UNCHANGED <<storage, inv, prodPc, restores, calls, worldVars, result,
                   pending, wclosed, produced, received, consErr, prodErr>>

\* err := <-errCh after Store succeeded.
BackupWait ==
    /\ Alive
    /\ inv.op = "backup"
    /\ inv.variant = "pipe"
    /\ callerPc = "wait"
    /\ errCh # <<>>
    /\ errCh' = Tail(errCh)
    /\ IF Head(errCh)
       THEN ReturnNil("producer")
       ELSE callerPc' = "info" /\ UNCHANGED result
    /\ UNCHANGED <<storage, inv, prodPc, restores, calls, worldVars,
                   pending, wclosed, produced, received, consErr, prodErr>>

\* Storage.GetInfo(backupPath) and the successful BackupResult.
BackupInfo(ok) ==
    /\ Alive
    /\ inv.op = "backup"
    /\ inv.variant = "pipe"
    /\ callerPc = "info"
    /\ IF ok /\ inv.path \in DOMAIN storage
       THEN /\ callerPc' = "returned"
            /\ result' = [NoResult EXCEPT !.op = "backup", !.isNil = FALSE,
                             !.ID = UuidStr(inv.id), !.Type = inv.kind,
                             !.StartTime = inv.start,
                             !.Size = GetInfo(provider, storage, inv.path).Size,
                             !.StoragePath = inv.path,
                             !.IsCompressed = inv.compress, !.Success = TRUE]
       ELSE ReturnNil("get_info")
    /\ UNCHANGED <<storage, inv, prodPc, restores, calls, pipeVars, worldVars>>

\* ------------------------------------- FullBackup.Backup, buffered variant
\* The metadata map of the buffered FullBackup.Backup.
BufferedMetadataMap(id, start, compress) ==
    IF compress
    THEN [backup_id |-> UuidStr(id), backup_type |-> Full, db_type |-> DBType,
          start_time |-> FormatRFC3339(start), compressed |-> "true"]
    ELSE [backup_id |-> UuidStr(id), backup_type |-> Full, db_type |-> DBType,
          start_time |-> FormatRFC3339(start)]

\* The buffered Backup up to the call of DB.Backup on the bytes.Buffer.
BufferedBackupStart(db, compress, id, d, infoOk) ==
    /\ CanStart
    /\ nOps < MaxOps
    /\ id \in FreshIds(usedIds)
    /\ nOps' = nOps + 1
    /\ now' = now + d
    /\ usedIds' = usedIds \cup {id}
    /\ FreshPipeline
    /\ prodPc' = "idle"
    /\ UNCHANGED <<provider, compressOpt, sideVars, storage, restores>>
    /\ IF infoOk
       THEN /\ inv' = [NoInv EXCEPT !.op = "backup", !.kind = Full, !.db = db,
                          !.compress = compress, !.id = id, !.start = now',
                          !.path = BackupPath(db, Full, now', id, compress),
                          !.meta = BufferedMetadataMap(id, now', compress),
                          !.variant = "buffer"]
            /\ callerPc' = "dump"
            /\ result' = NoResult
       ELSE /\ inv' = [NoInv EXCEPT !.op = "backup", !.kind = Full, !.db = db,
                          !.compress = compress, !.id = id, !.start = now',
                          !.variant = "buffer"]
            /\ callerPc' = "returned"
            /\ result' = NilResult("backup", "get_info")

\* What the gzip.Writer puts into the buffer for a chunk: encoded bytes,
\* which are not the bytes written.
Gzip(chunk) == [i \in 1..Len(chunk) |-> chunk[i] + 100]

\* What gzipWriter.Close() appends.
GzipTrailer == <<0>>

\* What reaches the bytes.Buffer for a chunk written by DB.Backup.
Buffered(chunk) == IF inv.compress THEN Gzip(chunk) ELSE chunk

\* DB.Backup writes a chunk: bytes.Buffer.Write appends it and returns.
BufferedDumpWrite(n) ==
    /\ Alive
    /\ inv.variant = "buffer"
    /\ callerPc = "dump"
    /\ n <= ProducerLeft
    /\ pending' = pending \o Buffered(NextChunk(n))
    /\ produced' = produced \o NextChunk(n)
    /\ calls' = [calls EXCEPT !.dbBackup = 1]
    /\ UNCHANGED <<storage, inv, callerPc, prodPc, result, restores, worldVars,
                   errCh, wclosed, received, consErr, prodErr>>

\* DB.Backup returns; on success Store is called on a reader of the buffer,
\* which ends where the buffer ends.
BufferedDumpReturn(err) ==
    /\ Alive
    /\ inv.variant = "buffer"
    /\ callerPc = "dump"
    /\ prodErr' = err
    /\ calls' = [calls EXCEPT !.dbBackup = 1]
    /\ IF err
       THEN ReturnNil("producer") /\ UNCHANGED <<wclosed, pending>>
       ELSE /\ callerPc' = "store"
            /\ wclosed' = TRUE
            /\ pending' = IF inv.compress THEN pending \o GzipTrailer ELSE pending
            /\ UNCHANGED result
    /\ UNCHANGED <<storage, inv, prodPc, restores, worldVars,
                   errCh, produced, received, consErr>>

\* The successful BackupResult of the buffered variant: Size is buf.Len().
BufferedBackupResult ==
    /\ Alive
    /\ inv.op = "backup"
    /\ inv.variant = "buffer"
    /\ callerPc = "wait"
    /\ callerPc' = "returned"
    /\ result' = [NoResult EXCEPT !.op = "backup", !.isNil = FALSE,
                     !.ID = UuidStr(inv.id), !.Type = Full,
                     !.StartTime = inv.start, !.Size = Len(received),
                     !.StoragePath = inv.path,
                     !.IsCompressed = inv.compress, !.Success = TRUE]
    /\ UNCHANGED <<storage, inv, prodPc, restores, calls, pipeVars, worldVars>>

\* ---------------------------------------------------- SelectiveRestorer
\* uuid.New().String() of the n-th restore.
RestoreId(n) == "r" \o ToString(n)

\* Restore returns (result, err) with Success false and ErrorMessage set.
ReturnFailed(err) ==
    /\ callerPc' = "returned"
    /\ result' = [NoResult EXCEPT !.op = "restore", !.isNil = FALSE,
                     !.ID = RestoreId(inv.id), !.err = err, !.ErrorMessage = err]
    /\ restores' = [restores EXCEPT ![RestoreId(inv.id)] =
                                      [Success |-> FALSE, ErrorMessage |-> err]]

\* Restore up to the start of the retrieving goroutine.
RestoreStart(bid, rid, d) ==
    /\ CanStart
    /\ nOps < MaxOps
    /\ rid = Cardinality(DOMAIN restores) + 1
    /\ nOps' = nOps + 1
    /\ FreshPipeline
    /\ UNCHANGED <<provider, compressOpt, sideVars, storage, usedIds>>
    /\ IF GetBackupFound(provider, storage, bid)
       THEN /\ now' = now + d
            /\ inv' = [NoInv EXCEPT !.op = "restore", !.id = rid, !.start = now',
                          !.base = bid,
                          !.path = GetBackup(provider, storage, bid).StoragePath,
                          !.src = storage[GetBackup(provider, storage, bid).StoragePath].data]
            /\ restores' = (RestoreId(rid) :> [Success |-> FALSE, ErrorMessage |-> ""])
                           @@ restores
            /\ callerPc' = "dbrestore"
            /\ prodPc' = "start"
            /\ result' = NoResult
       ELSE /\ inv' = [NoInv EXCEPT !.op = "restore", !.base = bid]
            /\ callerPc' = "returned"
            /\ prodPc' = "idle"
            /\ result' = NilResult("restore", "backup_not_found")
            /\ UNCHANGED <<now, restores>>

\* DB.Restore(ctx, pr) begins (the connector closes its handle and creates
\* the temporary file).
RestoreBegin(ok) ==
    /\ Alive
    /\ inv.op = "restore"
    /\ callerPc = "dbrestore"
    /\ calls' = [calls EXCEPT !.dbRestore = @ + 1]
    /\ IF ok
       THEN callerPc' = "rcopy" /\ UNCHANGED <<result, restores, consErr>>
       ELSE ReturnFailed("restore") /\ consErr' = TRUE
    /\ UNCHANGED <<storage, inv, prodPc, worldVars,
                   errCh, pending, wclosed, produced, received, prodErr>>

\* io.Copy in DB.Restore: one Read of the pipe.
RestoreRead(ok) ==
    /\ Alive
    /\ inv.op = "restore"
    /\ callerPc = "rcopy"
    /\ pending # <<>>
    /\ pending' = SubSeq(pending, ReadCount + 1, Len(pending))
    /\ received' = received \o SubSeq(pending, 1, ReadCount)
    /\ IF ok
       THEN UNCHANGED <<callerPc, result, restores, consErr>>
       ELSE ReturnFailed("restore") /\ consErr' = TRUE
    /\ UNCHANGED <<storage, inv, prodPc, calls, worldVars,
                   errCh, wclosed, produced, prodErr>>

\* Read returns io.EOF and DB.Restore finishes (rename, reopen, ping).
RestoreEOF(ok) ==
    /\ Alive
    /\ inv.op = "restore"
    /\ callerPc = "rcopy"
    /\ pending = <<>>
    /\ wclosed
    /\ IF ok
       THEN callerPc' = "rwait" /\ UNCHANGED <<result, restores, consErr>>
       ELSE ReturnFailed("restore") /\ consErr' = TRUE
    /\ UNCHANGED <<storage, inv, prodPc, calls, worldVars,
                   errCh, pending, wclosed, produced, received, prodErr>>

\* err := <-errCh after DB.Restore succeeded.
RestoreWait ==
    /\ Alive
    /\ inv.op = "restore"
    /\ callerPc = "rwait"
    /\ errCh # <<>>
    /\ errCh' = Tail(errCh)
    /\ IF Head(errCh)
       THEN ReturnFailed("retrieve")
       ELSE callerPc' = "tables" /\ UNCHANGED <<result, restores>>
    /\ UNCHANGED <<storage, inv, prodPc, calls, worldVars,
                   pending, wclosed, produced, received, consErr, prodErr>>

\* DB.ListTables and the successful RestoreResult.
RestoreTables(ok) ==
    /\ Alive
    /\ inv.op = "restore"
    /\ callerPc = "tables"
    /\ IF ok
       THEN /\ callerPc' = "returned"
            /\ result' = [NoResult EXCEPT !.op = "restore", !.isNil = FALSE,
                             !.ID = RestoreId(inv.id), !.Success = TRUE]
            /\ restores' = [restores EXCEPT ![RestoreId(inv.id)] =
                                              [Success |-> TRUE, ErrorMessage |-> ""]]
       ELSE ReturnFailed("list_tables")
    /\ UNCHANGED <<storage, inv, prodPc, calls, pipeVars, worldVars>>

\* --------------------------------------------------------- signal handler
\* <-c; cancel(): an interrupt arrives while a command is running.
Signal ==
    /\ sigPc = "waiting"
    /\ callerPc \notin {"idle", "returned"}
    /\ ctxCancelled' = TRUE
    /\ sigPc' = "sleeping"
    /\ UNCHANGED <<provider, compressOpt, sideVars, storage, now, usedIds, nOps, inv, callerPc,
                   prodPc, result, restores, calls, pipeVars>>

\* time.Sleep(500 * time.Millisecond); os.Exit(0)
SignalExit ==
    /\ sigPc = "sleeping"
    /\ sigPc' = "exited"
    /\ UNCHANGED <<provider, compressOpt, sideVars, storage, now, usedIds, nOps, inv, callerPc,
                   prodPc, result, restores, calls, pipeVars, ctxCancelled>>

\* ------------------------------------------------------------ specification
DBSet == {DBNames[i] : i \in 1..Len(DBNames)}

\* The clock moves by one tick or by one second between two invocations.
Delays == {1, TicksPerSec}

Next ==
    \/ \E db \in DBSet, id \in FreshIds(usedIds), d \in Delays, ok \in BOOLEAN :
            \/ FullBackupStart(db, compressOpt, id, d, ok)
            \/ IncrementalBackupStart(db, compressOpt, id, d, ok)
    \/ \E db \in DBSet : DifferentialBackupStart(db, compressOpt)
    \/ ProdBegin
    \/ \E n \in 1..ChunkMax : ProdWrite(n)
    \/ ProdWriteReturn
    \/ \E err \in BOOLEAN : ProdReturn(err)
    \/ ProdSend
    \/ ProdClose
    \/ \E ok \in BOOLEAN : StoreCreate(ok)
    \/ \E ok \in BOOLEAN : StoreRead(ok)
    \/ StoreEOF
    \/ \E ok \in BOOLEAN : StoreMeta(ok)
    \/ BackupWait
    \/ \E ok \in BOOLEAN : BackupInfo(ok)
    \/ \E bid \in {""} \cup {UuidStr(i) : i \in usedIds}, d \in Delays :
            RestoreStart(bid, Cardinality(DOMAIN restores) + 1, d)
    \/ \E ok \in BOOLEAN : RestoreBegin(ok)
    \/ \E ok \in BOOLEAN : RestoreRead(ok)
    \/ \E ok \in BOOLEAN : RestoreEOF(ok)
    \/ RestoreWait
    \/ \E ok \in BOOLEAN : RestoreTables(ok)

Spec == Init /\ [][Next]_vars

\* The buffered variant of FullBackup.Backup on the same providers.
NextBuffered ==
    \/ \E db \in DBSet, id \in FreshIds(usedIds), d \in Delays, ok \in BOOLEAN :
            BufferedBackupStart(db, compressOpt, id, d, ok)
    \/ \E n \in 1..ChunkMax : BufferedDumpWrite(n)
    \/ \E err \in BOOLEAN : BufferedDumpReturn(err)
    \/ \E ok \in BOOLEAN : StoreCreate(ok)
    \/ \E ok \in BOOLEAN : StoreRead(ok)
    \/ StoreEOF
    \/ \E ok \in BOOLEAN : StoreMeta(ok)
    \/ BufferedBackupResult

SpecBuffered == Init /\ [][NextBuffered]_vars

\* One command of the CLI: main starts the signal handler and runs one Full
\* backup.
NextCommand ==
    \/ \E db \in DBSet, id \in FreshIds(usedIds), d \in Delays, ok \in BOOLEAN :
            nOps = 0 /\ FullBackupStart(db, compressOpt, id, d, ok)
    \/ ProdBegin
    \/ \E n \in 1..ChunkMax : ProdWrite(n)
    \/ ProdWriteReturn
    \/ \E err \in BOOLEAN : ProdReturn(err)
    \/ ProdSend
    \/ ProdClose
    \/ \E ok \in BOOLEAN : StoreCreate(ok)
    \/ \E ok \in BOOLEAN : StoreRead(ok)
    \/ StoreEOF
    \/ \E ok \in BOOLEAN : StoreMeta(ok)
    \/ BackupWait
    \/ \E ok \in BOOLEAN : BackupInfo(ok)
    \/ Signal
    \/ SignalExit

SpecCommand == Init /\ [][NextCommand]_vars

\* ------------------------------------------------------ catalog operations
\* The invocations of the catalog operations, each taken as a whole: a
\* Backup or Restore from its call to its return, ListBackups, GetBackup,
\* DeleteBackup and ValidateBackup.

\* The variables a whole invocation leaves as they are.
catVars == <<provider, compressOpt, sideVars, prodPc, calls, pipeVars, ctxCancelled, sigPc>>

\* No invocation is running and no goroutine is left.
Quiet == callerPc \in {"idle", "returned"} /\ prodPc = "idle"

\* How a Backup run ends: with success, with an error of DB.Backup, or with
\* an error of Storage.Store after the object was created.
RunOutcomes == {"ok", "producer", "store"}

\* The bytes DB.Backup writes in a run that succeeds.
RunDump == <<1>>

\* A Store that keeps only the newest object of a database and kind.
StorageAfterRun_KeepNewest(prov, store, path, meta, outcome) ==
    (path :> [data |-> IF outcome = "ok" THEN RunDump ELSE <<>>, meta |-> meta])
    @@ [p \in {q \in DOMAIN store : q.db # path.db \/ q.kind # path.kind}
        |-> store[p]]

\* The storage a Backup run leaves. A failed DB.Backup ends the stream
\* cleanly, so Store keeps the empty object with its metadata; a failed
\* Store leaves the created file on LocalProvider and nothing on S3Provider.
StorageAfterRun(prov, store, path, meta, outcome) ==
    IF outcome = "ok" THEN (path :> [data |-> RunDump, meta |-> meta]) @@ store
    ELSE IF outcome = "producer" THEN (path :> [data |-> <<>>, meta |-> meta]) @@ store
    ELSE IF prov = "local" THEN (path :> [data |-> <<>>, meta |-> NoMeta]) @@ store
    ELSE store

\* What a Backup run returns.
RunResult(prov, store, kind, id, start, path, compress, outcome) ==
    IF outcome = "ok"
    THEN [NoResult EXCEPT !.op = "backup", !.isNil = FALSE, !.ID = UuidStr(id),
             !.Type = kind, !.StartTime = start,
             !.Size = GetInfo(prov, store, path).Size, !.StoragePath = path,
             !.IsCompressed = compress, !.Success = TRUE]
    ELSE NilResult("backup", outcome)

\* FullBackup.Backup, from call to return.
FullBackupRun(db, compress, id, d, outcome) ==
    LET start == now + d
        path == BackupPath(db, Full, start, id, compress)
        meta == FullMetadataMap(id, db, start, compress)
    IN
    /\ Quiet
    /\ nOps < MaxCatalogOps
    /\ id \in FreshIds(usedIds)
    /\ nOps' = nOps + 1
    /\ now' = start
    /\ usedIds' = usedIds \cup {id}
    /\ storage' = StorageAfterRun(provider, storage, path, meta, outcome)
    /\ inv' = [NoInv EXCEPT !.op = "backup", !.kind = Full, !.db = db,
                  !.compress = compress, !.id = id, !.start = start,
                  !.path = path, !.meta = meta]
    /\ callerPc' = "returned"
    /\ result' = RunResult(provider, storage', Full, id, start, path, compress, outcome)
    /\ UNCHANGED <<restores, catVars>>

\* IncrementalBackup.Backup, from call to return.
IncrementalBackupRun(db, compress, id, d, outcome) ==
    LET base == findLatestFullBackup(provider, storage, db)
        start == now + d
        path == BackupPath(db, Incremental, start, id, compress)
    IN
    /\ Quiet
    /\ nOps < MaxCatalogOps
    /\ id \in FreshIds(usedIds)
    /\ nOps' = nOps + 1
    /\ callerPc' = "returned"
    /\ UNCHANGED <<restores, catVars>>
    /\ IF base = <<>>
       THEN /\ inv' = [NoInv EXCEPT !.op = "backup", !.kind = Incremental, !.db = db,
                          !.compress = compress]
            /\ result' = NilResult("backup", "no_base_backup")
            /\ UNCHANGED <<now, usedIds, storage>>
       ELSE LET meta == IncrementalMetadataMap(id, db, start, compress, base[1].ID) IN
            /\ now' = start
            /\ usedIds' = usedIds \cup {id}
            /\ storage' = StorageAfterRun(provider, storage, path, meta, outcome)
            /\ inv' = [NoInv EXCEPT !.op = "backup", !.kind = Incremental, !.db = db,
                          !.compress = compress, !.id = id, !.start = start,
                          !.base = base[1].ID, !.path = path, !.meta = meta]
            /\ result' = RunResult(provider, storage', Incremental, id, start, path,
                                   compress, outcome)

\* A ListBackups that removes the objects it finds without a backup id.
ListBackupsCall_Pruning ==
    /\ Quiet
    /\ nOps < MaxCatalogOps
    /\ nOps' = nOps + 1
    /\ inv' = [NoInv EXCEPT !.op = "list",
                  !.src = IF inv.op = "list" THEN result.List ELSE <<>>]
    /\ callerPc' = "returned"
    /\ result' = [NoResult EXCEPT !.op = "list", !.isNil = FALSE,
                     !.List = ListBackups(provider, storage)]
    /\ storage' = [p \in {q \in DOMAIN storage :
                              MetaGet(storage[q].meta, "backup_id") # ""}
                    |-> storage[p]]
    /\ UNCHANGED <<now, usedIds, restores, catVars>>

\* ListBackups called by a client of the strategy. inv.src keeps what the
\* previous call returned when that call was a ListBackups too.
ListBackupsCall ==
    /\ Quiet
    /\ nOps < MaxCatalogOps
    /\ nOps' = nOps + 1
    /\ inv' = [NoInv EXCEPT !.op = "list",
                  !.src = IF inv.op = "list" THEN result.List ELSE <<>>]
    /\ callerPc' = "returned"
    /\ result' = [NoResult EXCEPT !.op = "list", !.isNil = FALSE,
                     !.List = ListBackups(provider, storage)]
    /\ UNCHANGED <<storage, now, usedIds, restores, catVars>>

\* GetBackup(id) called by a client of the strategy.
GetBackupCall(id) ==
    /\ Quiet
    /\ nOps < MaxCatalogOps
    /\ nOps' = nOps + 1
    /\ inv' = [NoInv EXCEPT !.op = "get", !.base = id]
    /\ callerPc' = "returned"
    /\ result' = IF GetBackupFound(provider, storage, id)
                 THEN LET b == GetBackup(provider, storage, id) IN
                      [NoResult EXCEPT !.op = "get", !.isNil = FALSE, !.ID = b.ID,
                          !.Type = b.Type, !.StartTime = b.StartTime, !.Size = b.Size,
                          !.StoragePath = b.StoragePath,
                          !.IsCompressed = b.IsCompressed, !.Success = b.Success]
                 ELSE NilResult("get", "backup_not_found")
    /\ UNCHANGED <<storage, now, usedIds, restores, catVars>>

\* Provider.Delete(path): the object and, on LocalProvider, its metadata
\* file.
Delete(store, path) == [p \in DOMAIN store \ {path} |-> store[p]]

\* A DeleteBackup that, finding no record with the id, deletes the first
\* object of the listing.
DeleteBackup_FirstListed(id, ok) ==
    /\ Quiet
    /\ nOps < MaxCatalogOps
    /\ nOps' = nOps + 1
    /\ inv' = [NoInv EXCEPT !.op = "delete", !.base = id]
    /\ callerPc' = "returned"
    /\ result' = NilResult("delete", "")
    /\ storage' = IF GetBackupFound(provider, storage, id)
                  THEN Delete(storage, GetBackup(provider, storage, id).StoragePath)
                  ELSE IF List(storage) # <<>>
                  THEN Delete(storage, Head(List(storage)))
                  ELSE storage
    /\ UNCHANGED <<now, usedIds, restores, catVars>>

\* DeleteBackup(id): GetBackup, then Provider.Delete of the record's path.
DeleteBackup(id, ok) ==
    /\ Quiet
    /\ nOps < MaxCatalogOps
    /\ nOps' = nOps + 1
    /\ inv' = [NoInv EXCEPT !.op = "delete", !.base = id]
    /\ callerPc' = "returned"
    /\ IF ~GetBackupFound(provider, storage, id)
       THEN /\ result' = NilResult("delete", "backup_not_found")
            /\ UNCHANGED storage
       ELSE IF ok
       THEN /\ result' = NilResult("delete", "")
            /\ storage' = Delete(storage, GetBackup(provider, storage, id).StoragePath)
       ELSE /\ result' = NilResult("delete", "delete")
            /\ UNCHANGED storage
    /\ UNCHANGED <<now, usedIds, restores, catVars>>

\* SelectiveRestorer.ValidateBackup(id).
ValidateBackup(id) ==
    /\ Quiet
    /\ nOps < MaxCatalogOps
    /\ nOps' = nOps + 1
    /\ inv' = [NoInv EXCEPT !.op = "validate", !.base = id]
    /\ callerPc' = "returned"
    /\ result' = IF GetBackupFound(provider, storage, id)
                 THEN [NoResult EXCEPT !.op = "validate", !.isNil = FALSE,
                          !.Success = GetBackup(provider, storage, id).Success]
                 ELSE NilResult("validate", "backup_not_found")
    /\ UNCHANGED <<storage, now, usedIds, restores, catVars>>

\* SelectiveRestorer.Restore, from call to return.
RestoreRun(bid, ok) ==
    LET rid == RestoreId(Cardinality(DOMAIN restores) + 1) IN
    /\ Quiet
    /\ nOps < MaxCatalogOps
    /\ nOps' = nOps + 1
    /\ callerPc' = "returned"
    /\ inv' = [NoInv EXCEPT !.op = "restore", !.base = bid]
    /\ IF ~GetBackupFound(provider, storage, bid)
       THEN /\ result' = NilResult("restore", "backup_not_found")
            /\ UNCHANGED restores
       ELSE /\ restores' = (rid :> [Success |-> ok,
                                    ErrorMessage |-> IF ok THEN "" ELSE "restore"])
                           @@ restores
            /\ result' = [NoResult EXCEPT !.op = "restore", !.isNil = FALSE,
                             !.ID = rid, !.Success = ok,
                             !.err = IF ok THEN "" ELSE "restore",
                             !.ErrorMessage = IF ok THEN "" ELSE "restore"]
    /\ UNCHANGED <<storage, now, usedIds, catVars>>

\* The ids a client can ask for: the empty id, and every uuid handed out.
AskIds == {""} \cup {UuidStr(i) : i \in usedIds}

NextCatalog ==
    \/ \E db \in DBSet, id \in FreshIds(usedIds), d \in Delays, o \in RunOutcomes :
            \/ FullBackupRun(db, compressOpt, id, d, o)
            \/ IncrementalBackupRun(db, compressOpt, id, d, o)
    \/ ListBackupsCall
    \/ \E id \in AskIds : GetBackupCall(id)
    \/ \E id \in AskIds, ok \in BOOLEAN : DeleteBackup(id, ok)
    \/ \E id \in AskIds : ValidateBackup(id)
    \/ \E id \in AskIds, ok \in BOOLEAN : RestoreRun(id, ok)

SpecCatalog == Init /\ [][NextCatalog]_vars

\* Weak fairness of the two tasks of the pipeline: the Go scheduler runs a
\* goroutine that can take a step, and a consumer that keeps reading takes
\* its next step.
ProducerStep ==
    \/ ProdBegin
    \/ \E n \in 1..ChunkMax : ProdWrite(n)
    \/ ProdWriteReturn
    \/ \E err \in BOOLEAN : ProdReturn(err)
    \/ ProdSend
    \/ ProdClose

ConsumerStep ==
    \/ \E ok \in BOOLEAN : StoreCreate(ok)
    \/ \E ok \in BOOLEAN : StoreRead(ok)
    \/ StoreEOF
    \/ \E ok \in BOOLEAN : StoreMeta(ok)

FairSpec == Spec /\ WF_vars(ProducerStep) /\ WF_vars(ConsumerStep)

\* ----------------------------------------------------------------- claims
\* A Backup invocation has returned to its caller.
BackupReturned == callerPc = "returned" /\ inv.op = "backup"

\* Storage.Store is running in the caller.
InStore == inv.op = "backup" /\ callerPc \in {"store", "copy", "meta"}

\* The producer's DB.Backup has returned an error.
ProducerFailed == prodErr /\ prodPc \in {"send", "close", "done"}

\* The producer has delivered its outcome on the completion channel.
ProducerDelivered == prodPc \in {"close", "done"}

\* The keys that make an object a backup of the catalog.
MandatoryKeys == {"backup_id", "backup_type", "start_time"}

\* The storage as it was when the invocation in progress began: Store only
\* ever touches the invocation's own path.
StorageBefore == [p \in DOMAIN storage \ {inv.path} |-> storage[p]]

\* C1: when Backup returns an error after the transfer started (DB.Backup or
\* Storage.Store failed), the object at the backup's path, if there is one,
\* carries none of backup_id / backup_type / start_time.
C1_NoPartialCommit ==
    (BackupReturned /\ result.err \in {"store", "producer"}
       /\ inv.path \in DOMAIN storage)
    => \A k \in MandatoryKeys : k \notin DOMAIN storage[inv.path].meta

\* C2: Backup returns an error whenever DB.Backup or Storage.Store returned
\* an error, and a Success result only when both succeeded; Restore does the
\* same for Storage.Retrieve and DB.Restore.
C2_ErrorIfEitherSideFailed ==
    callerPc = "returned" /\ inv.op \in {"backup", "restore"}
    => /\ (consErr \/ ProducerFailed) => (result.err # "" /\ ~result.Success)
       /\ result.Success => (ProducerDelivered /\ ~prodErr /\ ~consErr
                             /\ result.err = "")

C2_Witness ==
    /\ BackupReturned
    /\ result.err = "producer"
    /\ ~result.Success
    /\ ProducerFailed
    /\ ~consErr
    /\ inv.path \in DOMAIN storage

\* C3: once the producer goroutine was started, Backup returns only after the
\* producer delivered its outcome on the completion channel.
C3_ReturnsAfterBothTasks ==
    (BackupReturned /\ prodPc # "idle") => ProducerDelivered

\* C4: when DB.Backup fails the write end of the pipe is closed all the same,
\* and a Store that keeps reading returns.
C4_FailedProducerClosesPipe ==
    /\ ProducerFailed ~> wclosed
    /\ (ProducerFailed /\ InStore) ~> ~InStore

C4_Witness ==
    /\ BackupReturned
    /\ ProducerFailed
    /\ wclosed
    /\ calls.store = 1
    /\ result.err = "producer"

\* C5: on a successful Backup the bytes Store received, and the bytes of the
\* stored object, are the bytes DB.Backup wrote, in order; the size of the
\* object is the number of bytes produced.
C5_BytesDeliveredInOrder ==
    (BackupReturned /\ result.Success)
    => /\ received = produced
       /\ storage[inv.path].data = produced
       /\ result.Size = Len(produced)

C5_Witness ==
    /\ BackupReturned
    /\ result.Success
    /\ Len(produced) = MaxDump
    /\ MaxDump > 1

\* The objects of a storage that were stored as Full backups of database db.
FullsOf(store, db) ==
    {p \in DOMAIN store : /\ MetaGet(store[p].meta, "backup_type") = Full
                          /\ MetaGet(store[p].meta, "source_db") = db}

\* The indexes of the records of a listing whose ID is id.
Matching(l, id) == {i \in 1..Len(l) : l[i].ID = id}

\* C8: after a successful Full Backup with result R, ListBackups returns
\* exactly one record whose ID is R.ID, with R's Type, StartTime,
\* IsCompressed and StoragePath; on a fresh storage it is the only record
\* and the only object.
C8_FullBackupListed ==
    (BackupReturned /\ result.Success /\ result.Type = Full)
    => LET l == ListBackups(provider, storage) IN
       /\ Cardinality(Matching(l, result.ID)) = 1
       /\ \A i \in Matching(l, result.ID) :
             /\ l[i].Type = result.Type
             /\ l[i].StartTime = result.StartTime
             /\ l[i].IsCompressed = result.IsCompressed
             /\ l[i].StoragePath = result.StoragePath
       /\ DOMAIN StorageBefore = {}
            => (Len(l) = 1 /\ Cardinality(DOMAIN storage) = 1)

\* C9: an Incremental or Differential Backup called when storage holds no
\* Full backup of the source database returns the no-base-backup error,
\* calls neither DB.Backup nor Storage.Store and creates no object.
C9_NoBaseNoTransfer ==
    (inv.op = "backup" /\ inv.kind \in {Incremental, Differential}
       /\ FullsOf(StorageBefore, inv.db) = {})
    => /\ callerPc = "returned"
       /\ result.err = "no_base_backup"
       /\ calls.dbBackup = 0
       /\ calls.store = 0
       /\ prodPc = "idle"
       /\ inv.path \notin DOMAIN storage

\* C10: when an Incremental Backup succeeds, its base is the Full backup of
\* opts.SourceDB with the latest start time, and the stored object's
\* base_backup is that backup's id.
C10_BaseIsLatestFullOfSourceDB ==
    (BackupReturned /\ result.Success /\ inv.kind = Incremental)
    => LET fulls == FullsOf(StorageBefore, inv.db) IN
       /\ \E p \in fulls :
             /\ MetaGet(storage[p].meta, "backup_id") = inv.base
             /\ \A q \in fulls :
                   ParseRFC3339(MetaGet(storage[q].meta, "start_time"))
                     <= ParseRFC3339(MetaGet(storage[p].meta, "start_time"))
       /\ MetaGet(storage[inv.path].meta, "base_backup") = inv.base

\* Bytes handed over by the producer that the consumer has not read yet.
InFlight == Len(produced) - Len(received)

\* The size of the conduit: an io.Pipe holds the bytes of one Write.
ConduitSize == ChunkMax

\* C6: during a Backup transfer the bytes written by the producer and not
\* yet read by the consumer never exceed the size of the conduit, whatever
\* the size of the dump; a write blocks until the reader drained it and a
\* read blocks while the conduit is empty and open.
C6_InFlightBounded ==
    inv.op = "backup"
    => /\ InFlight <= ConduitSize
       /\ ProducerStuck => ~ENABLED ProducerStep
       /\ (callerPc = "copy" /\ pending = <<>> /\ ~wclosed) => ~ENABLED ConsumerStep

\* C7: once the context of a Backup is cancelled the producer's dump writes
\* nothing more, and when the grace period of the signal handler ends the
\* Backup has returned to its caller and the producer has ended.
C7_CancelStopsTransfer ==
    /\ [][ctxCancelled => produced' = produced]_vars
    /\ [](sigPc = "exited" => (callerPc = "returned" /\ prodPc \in {"idle", "done"}))

\* A step that is an IncrementalBackup.Backup whose base resolution found a
\* base.
IncrementalResolved ==
    /\ nOps' = nOps + 1
    /\ inv'.op = "backup"
    /\ inv'.kind = Incremental
    /\ result'.err # "no_base_backup"

\* C11: the base an Incremental Backup records is a Full backup that is in
\* storage when the call resolves it; it is never a backup whose deletion
\* just succeeded; and when a Full backup of the same database was created
\* just before the call, that newest Full backup is the base.
C11_BaseRevalidated ==
    [][IncrementalResolved
       => /\ \E p \in DOMAIN storage :
                /\ MetaGet(storage[p].meta, "backup_type") = Full
                /\ MetaGet(storage[p].meta, "backup_id") = inv'.base
          /\ (inv.op = "delete" /\ result.err = "") => inv'.base # inv.base
          /\ (result.op = "backup" /\ result.Success /\ result.Type = Full
                /\ inv.db = inv'.db)
                => inv'.base = result.ID]_vars

\* time.Parse(time.RFC3339, s) succeeds.
Parsable(s) == \E t \in Instants : FormatRFC3339(t) = s

\* C12: every record ListBackups returns belongs to an object that has a
\* backup suffix and whose metadata, as the provider returns it, has
\* backup_id, backup_type and a parsable start_time.
C12_ListSkipsUnrecognised ==
    LET l == ListBackups(provider, storage) IN
    \A i \in 1..Len(l) :
        LET m == GetInfo(provider, storage, l[i].StoragePath).Metadata IN
        /\ isBackupFile(l[i].StoragePath)
        /\ \A k \in MandatoryKeys : k \in DOMAIN m
        /\ Parsable(MetaGet(m, "start_time"))

\* The records of a listing, as a set.
Records(l) == {l[i] : i \in 1..Len(l)}

\* A step that is a DeleteBackup which returned no error.
DeleteSucceeded ==
    /\ nOps' = nOps + 1
    /\ inv'.op = "delete"
    /\ result'.err = ""

\* C13: after DeleteBackup(id) returned without error, no object of storage
\* carries that backup id, ListBackups has no record with that id, GetBackup
\* of that id finds nothing, and every record with another id is listed as
\* before.
C13_DeleteRemovesBackup ==
    [][DeleteSucceeded
       => LET id == inv'.base IN
          /\ DOMAIN storage' # DOMAIN storage
          /\ \A p \in DOMAIN storage' : MetaGet(storage'[p].meta, "backup_id") # id
          /\ Matching(ListBackups(provider, storage'), id) = {}
          /\ ~GetBackupFound(provider, storage', id)
          /\ \A r \in Records(ListBackups(provider, storage)) :
                r.ID # id => r \in Records(ListBackups(provider, storage'))]_vars

\* A step that is a GetBackup or a DeleteBackup of an id that no record of
\* the listing has.
UnknownIdAsked ==
    /\ nOps' = nOps + 1
    /\ inv'.op \in {"get", "delete"}
    /\ Matching(ListBackups(provider, storage), inv'.base) = {}

\* C14: GetBackup and DeleteBackup of an id that no record of the listing
\* has return the not-found error and leave storage as it is.
C14_UnknownIdNotFound ==
    [][UnknownIdAsked
       => /\ result'.err = "backup_not_found"
          /\ result'.isNil
          /\ storage' = storage]_vars

C14_Witness ==
    /\ inv.op = "delete"
    /\ inv.base # ""
    /\ result.err = "backup_not_found"
    /\ DOMAIN storage # {}

\* A step that is a ListBackups call.
ListCalled == nOps' = nOps + 1 /\ inv'.op = "list"

C16_RecordVisibleAfterStore ==
    InStore
    => \A r \in Records(ListBackups(provider, storage)) : r.StoragePath # inv.path

\* A step that starts a Backup which generates a storage path. Every object
\* in storage was stored by an invocation that started before it.
PathGenerated ==
    /\ nOps' = nOps + 1
    /\ inv'.op = "backup"
    /\ inv'.path # NoPath

\* C17: the path a Backup generates is the path of no object stored before,
\* and it sorts after the path of every object of the same database and
\* kind stored before.
C17_PathsUniqueAndSortable ==
    [][PathGenerated
       => \A p \in DOMAIN storage :
             /\ p # inv'.path
             /\ (p.db = inv'.path.db /\ p.kind = inv'.path.kind)
                   => PathLess(p, inv'.path)]_vars

C19_NoRetry ==
    /\ calls.dbBackup <= 1
    /\ calls.store <= 1
    /\ calls.retrieve <= 1
    /\ calls.dbRestore <= 1
    /\ (callerPc = "returned" /\ inv.op \in {"backup", "restore"}
          /\ (consErr \/ ProducerFailed))
       => result.err # ""

C19_Witness ==
    /\ BackupReturned
    /\ prodErr
    /\ calls.dbBackup = 1
    /\ calls.store = 1
    /\ result.err = "producer"

\* A Backup failed after its id and start time were generated, or a Restore
\* failed after its backup lookup.
FailedAfterSetup ==
    /\ callerPc = "returned"
    /\ \/ inv.op = "backup"
          /\ result.err \in {"list_tables", "producer", "store", "get_info"}
       \/ inv.op = "restore"
          /\ result.err \notin {"", "backup_not_found"}

\* C20: a Backup that fails after its id and start time were generated, and
\* a Restore that fails after its backup lookup, return with the error a
\* result that is not nil, has Success false and has ErrorMessage set.
C20_ResultOnFailure ==
    FailedAfterSetup
    => /\ ~result.isNil
       /\ ~result.Success
       /\ result.ErrorMessage # ""

\* ------------------------------------------------------- the process exit
\* main of the command line: the selected command is one full backup; when
\* runBackup returns, main returns (status 0) or calls os.Exit(1).  The
\* position of main after the return is kept in callerPc.
MainExited == callerPc \in {"exit0", "exit1"}

\* The process is gone: main has left or the signal handler called os.Exit(0).
ProcessExited == MainExited \/ sigPc = "exited"

\* if err != nil { logger.Error(...); os.Exit(1) }, otherwise main returns.
MainExit ==
    /\ callerPc = "returned"
    /\ Alive
    /\ callerPc' = IF result.err = "" THEN "exit0" ELSE "exit1"
    /\ UNCHANGED <<provider, compressOpt, sideVars, storage, now, usedIds, nOps, inv, prodPc,
                   result, restores, calls, pipeVars, ctxCancelled, sigPc>>

\* The status the process leaves with.
ExitCode == IF callerPc = "exit1" THEN 1 ELSE 0

\* No goroutine takes a step once main has left.
NextProcess ==
    \/ ~MainExited /\ NextCommand
    \/ MainExit

SpecProcess == Init /\ [][NextProcess]_vars

\* The selected command ran to its end and succeeded.
CommandSucceeded ==
    /\ callerPc \in {"returned", "exit0"}
    /\ result.op = "backup"
    /\ result.err = ""

\* C21: the process exits with status 0 only when the selected command ran to
\* successful completion, and with status 1 on every failure, whatever the
\* interleaving with the signal-handler goroutine.
C21_ExitStatusTellsOutcome ==
    ProcessExited => (ExitCode = 0 <=> CommandSucceeded)

\* ------------------------------------------------- provider metadata read
\* Provider.List(""): the FileInfo of every object, in the order of List.
ListEntries(prov, store) ==
    [i \in 1..Len(List(store)) |-> GetInfo(prov, store, List(store)[i])]

\* Store(path, data, M) has succeeded with a non-empty M and the object has
\* not been deleted.
StoredWithMetadata(p) == p \in DOMAIN storage /\ storage[p].meta # NoMeta

\* C22: with the local provider, after Store(path, data, M) succeeded with a
\* non-empty M, GetInfo(path).Metadata equals M and List returns an entry for
\* the path whose Metadata equals M, for as long as the object is not deleted.
C22_LocalMetadataRoundTrip ==
    provider = "local" =>
        \A p \in DOMAIN storage :
            StoredWithMetadata(p) =>
                /\ GetInfo(provider, storage, p).Metadata = storage[p].meta
                /\ \E i \in DOMAIN ListEntries(provider, storage) :
                        /\ ListEntries(provider, storage)[i].Path = p
                        /\ ListEntries(provider, storage)[i].Metadata = storage[p].meta

\* ---------------------------------------------------------- table filters
\* The table names of the database, the longest listing ListTables returns
\* and the longest include / exclude list of the options.
TableNames == <<"a", "b">>

MaxTables == 3

MaxFilter == 2

TableSet == {TableNames[i] : i \in 1..Len(TableNames)}

SeqsUpTo(S, n) == UNION {[1..k -> S] : k \in 0..n}

TableLists == SeqsUpTo(TableSet, MaxTables)

FilterLists == SeqsUpTo(TableSet, MaxFilter)

\* The filters the restore options carry.
RestoreFilters == {<<>>, <<TableNames[1]>>}

\* for _, t := range list { m[t] = true }
Marked(list) == {list[i] : i \in 1..Len(list)}

\* for _, t := range tables { if m[t] == want { filtered = append(filtered, t) } }
RECURSIVE FilterLoop(_, _, _)
FilterLoop(tables, m, want) ==
    IF tables = <<>> THEN <<>>
    ELSE (IF (Head(tables) \in m) = want THEN <<Head(tables)>> ELSE <<>>)
         \o FilterLoop(Tail(tables), m, want)

\* A filter in which a table named by both lists is kept.
filterTables_IncludeWins(tables, include, exclude) ==
    IF Len(include) = 0 /\ Len(exclude) = 0 THEN tables
    ELSE LET afterInclude == IF Len(include) > 0
                             THEN FilterLoop(tables, Marked(include), TRUE)
                             ELSE tables
         IN IF Len(exclude) > 0
            THEN FilterLoop(afterInclude, Marked(exclude) \ Marked(include), FALSE)
            ELSE afterInclude

\* filterTables(tables, include, exclude)
filterTables(tables, include, exclude) ==
    IF Len(include) = 0 /\ Len(exclude) = 0 THEN tables
    ELSE LET afterInclude == IF Len(include) > 0
                             THEN FilterLoop(tables, Marked(include), TRUE)
                             ELSE tables
         IN IF Len(exclude) > 0
            THEN FilterLoop(afterInclude, Marked(exclude), FALSE)
            ELSE afterInclude

\* SQLiteConnector.Backup(ctx, w, tables): the database file is copied to the
\* writer as it is; the dump is represented by the tables it holds.
SQLiteBackup(fileTables, tables) == fileTables

\* SQLiteConnector.Restore followed by ListTables: the file is replaced by
\* the stream and the tables of the new file are listed.
SQLiteRestoredTables(data) == data

\* FullBackup.Backup with table filters, from call to return, when every
\* step succeeds. The "metadata" value stands for the JSON document of
\* FullMetadata and is represented by the table list it records.
TableBackupRun(listed, include, exclude, id) ==
    LET start == now + 1
        db == DBNames[2]
        tables == filterTables(listed, include, exclude)
        path == BackupPath(db, Full, start, id, compressOpt)
        meta == [FullMetadataMap(id, db, start, compressOpt) EXCEPT !.metadata = tables]
    IN
    /\ Quiet
    /\ nOps = 0
    /\ id \in FreshIds(usedIds)
    /\ nOps' = nOps + 1
    /\ now' = start
    /\ usedIds' = usedIds \cup {id}
    /\ storage' = (path :> [data |-> SQLiteBackup(listed, tables), meta |-> meta])
                  @@ storage
    /\ inv' = [listed |-> listed, include |-> include, exclude |-> exclude,
               tables |-> tables]
              @@ [NoInv EXCEPT !.op = "backup", !.kind = Full, !.db = db,
                     !.compress = compressOpt, !.id = id, !.start = start,
                     !.path = path, !.meta = meta]
    /\ callerPc' = "returned"
    /\ result' = [NoResult EXCEPT !.op = "backup", !.isNil = FALSE, !.ID = UuidStr(id),
                     !.Type = Full, !.StartTime = start,
                     !.Size = GetInfo(provider, storage', path).Size,
                     !.StoragePath = path, !.IsCompressed = compressOpt,
                     !.Success = TRUE]
    /\ UNCHANGED <<restores, catVars>>

\* SelectiveRestorer.Restore with RestoreOptions{BackupID, IncludeTables,
\* ExcludeTables}, from call to return.
TableRestoreRun(bid, include, exclude, ok) ==
    LET rid == RestoreId(Cardinality(DOMAIN restores) + 1)
        found == GetBackupFound(provider, storage, bid)
        restored == IF found /\ ok
                    THEN SQLiteRestoredTables(
                             storage[GetBackup(provider, storage, bid).StoragePath].data)
                    ELSE <<>>
    IN
    /\ Quiet
    /\ nOps > 0
    /\ nOps < MaxCatalogOps
    /\ nOps' = nOps + 1
    /\ callerPc' = "returned"
    /\ inv' = [include |-> include, exclude |-> exclude]
              @@ [NoInv EXCEPT !.op = "restore", !.base = bid]
    /\ IF ~found
       THEN /\ result' = NilResult("restore", "backup_not_found")
            /\ UNCHANGED restores
       ELSE /\ restores' = (rid :> [BackupID |-> bid, TablesRestored |-> restored,
                                    Success |-> ok,
                                    ErrorMessage |-> IF ok THEN "" ELSE "restore"])
                           @@ restores
            /\ result' = [NoResult EXCEPT !.op = "restore", !.isNil = FALSE,
                             !.ID = rid, !.Success = ok,
                             !.err = IF ok THEN "" ELSE "restore",
                             !.ErrorMessage = IF ok THEN "" ELSE "restore"]
    /\ UNCHANGED <<storage, now, usedIds, catVars>>

NextTables ==
    \/ \E listed \in TableLists, include \in FilterLists, exclude \in FilterLists,
          id \in FreshIds(usedIds) :
            TableBackupRun(listed, include, exclude, id)
    \/ \E bid \in AskIds, include \in RestoreFilters, exclude \in RestoreFilters,
          ok \in BOOLEAN :
            TableRestoreRun(bid, include, exclude, ok)

SpecTables == Init /\ [][NextTables]_vars

\* A Backup with table filters has returned.
FilteredBackupReturned == inv.op = "backup" /\ callerPc = "returned"

ObjectsOf(bid) ==
    {p \in DOMAIN storage : MetaGet(storage[p].meta, "backup_id") = bid}

\* The restores of the registry that succeeded.
SucceededRestores == {r \in DOMAIN restores : restores[r].Success}

\* C23: table filtering is frozen at dump time: a Restore of a backup taken
\* with table filters restores exactly the set of tables the filters selected
\* when the backup was taken, and two Restores of the same backup restore the
\* same tables whatever their own include / exclude filters.
C23_FilteringFrozenAtDump ==
    /\ \A r \in SucceededRestores :
          \A p \in ObjectsOf(restores[r].BackupID) :
              Marked(restores[r].TablesRestored) = Marked(storage[p].meta.metadata)
    /\ \A r1, r2 \in SucceededRestores :
          restores[r1].BackupID = restores[r2].BackupID =>
              restores[r1].TablesRestored = restores[r2].TablesRestored

\* ------------------------------------------------------- SQLiteConnector
\* The handles (*sql.DB) a connector opens in one behaviour.
MaxHandles == 3

\* The frame of a connector call.
nonConnVars == <<coreVars, sched, rcalls>>

\* sql.Open followed by db.SetMaxOpenConns(1): a new open handle. A handle
\* that was never limited has maxOpen 0, the unlimited default of database/sql.
OpenHandle(handles) == Append(handles, [open |-> TRUE, maxOpen |-> 1])

\* db.Close() on handle h; closing the nil handle does nothing.
CloseHandle(handles, h) ==
    IF h = 0 THEN handles ELSE [handles EXCEPT ![h].open = FALSE]

\* Where a connector call fails, if it does.
ConnectFailures == {"none", "config", "open", "ping"}

RestoreFailures == {"none", "close", "file", "open", "ping"}

\* SQLiteConnector.Connect: the new handle is opened and, once the ping
\* succeeds, assigned to c.db; the handle c.db held is left as it is.
Connect(fail) ==
    /\ Len(conn.handles) < MaxHandles
    /\ conn' = IF fail \in {"config", "open"}
               THEN [conn EXCEPT !.err = fail]
               ELSE LET h == Len(conn.handles) + 1 IN
                    IF fail = "ping"
                    THEN [conn EXCEPT !.handles = CloseHandle(OpenHandle(conn.handles), h),
                                      !.err = fail]
                    ELSE [db |-> h, handles |-> OpenHandle(conn.handles), err |-> ""]
    /\ UNCHANGED nonConnVars

\* SQLiteConnector.Close: c.db.Close() when c.db is not nil; c.db keeps
\* pointing at the closed handle.
Close ==
    /\ conn' = [conn EXCEPT !.handles = CloseHandle(conn.handles, conn.db),
                            !.err = ""]
    /\ UNCHANGED nonConnVars

\* SQLiteConnector.Restore: close c.db, set it to nil, replace the file,
\* reopen.
Restore(fail) ==
    /\ Len(conn.handles) < MaxHandles
    /\ conn' = IF conn.db = 0
               THEN [conn EXCEPT !.err = "not_connected"]
               ELSE LET closed == CloseHandle(conn.handles, conn.db)
                        h == Len(conn.handles) + 1
                    IN IF fail = "close"
                       THEN [conn EXCEPT !.handles = closed, !.err = fail]
                       ELSE IF fail \in {"file", "open"}
                       THEN [db |-> 0, handles |-> closed, err |-> fail]
                       ELSE IF fail = "ping"
                       THEN [db |-> 0, handles |-> CloseHandle(OpenHandle(closed), h),
                             err |-> fail]
                       ELSE [db |-> h, handles |-> OpenHandle(closed), err |-> ""]
    /\ UNCHANGED nonConnVars

NextConnector ==
    \/ \E fail \in ConnectFailures : Connect(fail)
    \/ Close
    \/ \E fail \in RestoreFailures : Restore(fail)

SpecConnector == Init /\ [][NextConnector]_vars

\* The handles that are open.
OpenHandles == {h \in 1..Len(conn.handles) : conn.handles[h].open}

\* C24: a SQLiteConnector holds at most one open database handle at any time,
\* across any sequence of Connect, Restore and Close calls, and every open
\* handle is limited to one open connection.
C24_OneOpenHandle ==
    /\ Cardinality(OpenHandles) <= 1
    /\ \A h \in OpenHandles : conn.handles[h].maxOpen = 1

\* ------------------------------------------------------------- Scheduler
\* The calls made to one Scheduler in a behaviour, and the task names.
MaxSchedOps == 4

TaskNames == {"x", "y"}

SchedOps == {"add", "remove", "list"}

\* The frame of a scheduler step.
nonSchedVars == <<coreVars, conn, rcalls>>

\* The elements of a slice.
ContentIn(arrays, slice) ==
    IF slice.arr = 0 THEN <<>> ELSE SubSeq(arrays[slice.arr], 1, slice.len)

Content(slice) == ContentIn(sched.arrays, slice)

\* cap(slice): the length of its backing array.
Cap(arrays, slice) == IF slice.arr = 0 THEN 0 ELSE Len(arrays[slice.arr])

\* append(slice, x): in place when the capacity allows, otherwise into a new
\* backing array of twice the capacity. Unused slots hold "".
GoAppend(arrays, slice, x) ==
    IF slice.len < Cap(arrays, slice)
    THEN [arrays |-> [arrays EXCEPT ![slice.arr][slice.len + 1] = x],
          slice |-> [arr |-> slice.arr, len |-> slice.len + 1]]
    ELSE LET newcap == IF slice.len = 0 THEN 1 ELSE 2 * slice.len
             old == ContentIn(arrays, slice)
             new == [k \in 1..newcap |->
                        IF k <= slice.len THEN old[k]
                        ELSE IF k = slice.len + 1 THEN x ELSE ""]
         IN [arrays |-> Append(arrays, new),
             slice |-> [arr |-> Len(arrays) + 1, len |-> slice.len + 1]]

\* The positions of the tasks called name in a slice.
IndexesOf(arrays, slice, name) ==
    {i \in 1..slice.len : arrays[slice.arr][i] = name}

FirstIndex(S) == CHOOSE i \in S : \A j \in S : i <= j

\* append(s.tasks[:i], s.tasks[i+1:]...): the tail is moved one slot to the
\* left inside the same backing array.
GoRemoveAt(arrays, slice, i) ==
    [arrays |-> [arrays EXCEPT ![slice.arr] =
                    [k \in 1..Len(arrays[slice.arr]) |->
                        IF k >= i /\ k < slice.len THEN arrays[slice.arr][k + 1]
                        ELSE arrays[slice.arr][k]]],
     slice |-> [arr |-> slice.arr, len |-> slice.len - 1]]

\* A goroutine calls AddTask, RemoveTask or ListTasks.
SchedCall(t, op, name) ==
    /\ sched.thr[t].pc \in {"idle", "done"}
    /\ sched.n < MaxSchedOps
    /\ sched' = [sched EXCEPT !.n = sched.n + 1,
                    !.thr[t] = [NoThread EXCEPT !.pc = "lock", !.op = op,
                                   !.arg = IF op = "list" THEN "" ELSE name]]
    /\ UNCHANGED nonSchedVars

\* A lock that does not wait for its holder.
SchedLock_NoMutex(t) ==
    /\ sched.thr[t].pc = "lock"
    /\ sched' = [sched EXCEPT !.mu = t, !.thr[t].pc = "read",
                    !.thr[t].seen = Content(sched.tasks)]
    /\ UNCHANGED nonSchedVars

\* s.mu.Lock(). seen keeps the tasks the registry holds when the lock is
\* taken.
SchedLock(t) ==
    /\ sched.thr[t].pc = "lock"
    /\ sched.mu = 0
    /\ sched' = [sched EXCEPT !.mu = t, !.thr[t].pc = "read",
                    !.thr[t].seen = Content(sched.tasks)]
    /\ UNCHANGED nonSchedVars

\* The body reads the slice header s.tasks.
SchedRead(t) ==
    /\ sched.thr[t].pc = "read"
    /\ sched' = [sched EXCEPT !.thr[t].pc = "write", !.thr[t].local = sched.tasks]
    /\ UNCHANGED nonSchedVars

\* The body's write: AddTask assigns the appended slice, RemoveTask assigns
\* the slice without the first task of that name and returns true (false
\* when there is none), ListTasks copies the tasks into a new slice.
SchedWrite(t) ==
    LET me == sched.thr[t]
        hits == IndexesOf(sched.arrays, me.local, me.arg)
    IN
    /\ me.pc = "write"
    /\ sched' =
          IF me.op = "add"
          THEN LET r == GoAppend(sched.arrays, me.local, me.arg) IN
               [sched EXCEPT !.arrays = r.arrays, !.tasks = r.slice,
                             !.thr[t].pc = "unlock"]
          ELSE IF me.op = "remove"
          THEN IF hits = {}
               THEN [sched EXCEPT !.thr[t].pc = "unlock", !.thr[t].found = FALSE]
               ELSE LET r == GoRemoveAt(sched.arrays, me.local, FirstIndex(hits)) IN
                    [sched EXCEPT !.arrays = r.arrays, !.tasks = r.slice,
                                  !.thr[t].pc = "unlock", !.thr[t].found = TRUE]
          ELSE [sched EXCEPT !.arrays = Append(sched.arrays,
                                               ContentIn(sched.arrays, me.local)),
                             !.thr[t].ret = [arr |-> Len(sched.arrays) + 1,
                                             len |-> me.local.len],
                             !.thr[t].pc = "unlock"]
    /\ UNCHANGED nonSchedVars

\* defer s.mu.Unlock() and the return.
SchedUnlock(t) ==
    /\ sched.thr[t].pc = "unlock"
    /\ sched' = [sched EXCEPT !.mu = 0, !.thr[t].pc = "done"]
    /\ UNCHANGED nonSchedVars

NextScheduler ==
    \E t \in Threads :
        \/ \E op \in SchedOps, name \in TaskNames : SchedCall(t, op, name)
        \/ SchedLock(t)
        \/ SchedRead(t)
        \/ SchedWrite(t)
        \/ SchedUnlock(t)

SpecScheduler == Init /\ [][NextScheduler]_vars

\* A goroutine between the read and the write of s.tasks holds the mutex.
LockProtects ==
    \A t \in Threads : sched.thr[t].pc \in {"read", "write"} => sched.mu = t

\* The sequence without its first element equal to name.
WithoutFirst(seq, name) ==
    IF \A i \in 1..Len(seq) : seq[i] # name THEN seq
    ELSE LET i == FirstIndex({k \in 1..Len(seq) : seq[k] = name}) IN
         SubSeq(seq, 1, i - 1) \o SubSeq(seq, i + 1, Len(seq))

\* The call that has finished its body took effect as one step on the
\* registry it found when it took the lock.
Linearized ==
    \A t \in Threads :
        LET me == sched.thr[t] IN
        me.pc = "unlock" =>
            /\ me.op = "add" => Content(sched.tasks) = Append(me.seen, me.arg)
            /\ me.op = "remove" =>
                  /\ Content(sched.tasks) = WithoutFirst(me.seen, me.arg)
                  /\ me.found = (\E i \in 1..Len(me.seen) : me.seen[i] = me.arg)
            /\ me.op = "list" =>
                  /\ Content(me.ret) = me.seen
                  /\ Content(sched.tasks) = me.seen

\* The slice a ListTasks returned keeps its elements.
SnapshotStable ==
    \A t \in Threads :
        (/\ sched.thr[t].pc = "done"
         /\ sched.thr[t].op = "list"
         /\ sched'.thr[t] = sched.thr[t])
        => ContentIn(sched'.arrays, sched.thr[t].ret)
               = ContentIn(sched.arrays, sched.thr[t].ret)

\* C25: the task registry of the scheduler is accessed only under its single
\* lock; concurrent AddTask, RemoveTask and ListTasks calls are linearizable,
\* and ListTasks returns a snapshot that later calls do not change.
C25_RegistryUnderLock ==
    [](LockProtects /\ Linearized) /\ [][SnapshotStable]_vars

\* A ListTasks has returned a non-empty snapshot to one goroutine and the
\* other has since removed a task of the registry in place.
C25_Witness ==
    \E t, u \in Threads :
        /\ sched.thr[t].pc = "done"
        /\ sched.thr[t].op = "list"
        /\ sched.thr[t].ret.len > 0
        /\ Content(sched.thr[t].ret) # Content(sched.tasks)
        /\ sched.mu = u
        /\ sched.thr[u].pc = "unlock"
        /\ sched.thr[u].op = "remove"
        /\ sched.thr[u].found

\* ------------------------------------------------------------ termination
\* The steps of the caller after Store returned: the receive on the
\* completion channel and the final GetInfo.
CallerStep ==
    \/ BackupWait
    \/ \E ok \in BOOLEAN : BackupInfo(ok)

\* Every goroutine that can take a step takes one: DB.Backup returns once its
\* writes complete or fail, Store reads to EOF or returns an error, and the
\* caller goes on when Store has returned.
FairReturnSpec == FairSpec /\ WF_vars(CallerStep)

\* A Backup invocation (pipe variant) is between its call and its return.
BackupRunning == inv.op = "backup" /\ callerPc \notin {"idle", "returned"}

\* The producer of a Backup is at the send of its outcome.
ProducerSending == inv.op = "backup" /\ prodPc = "send"

\* C27: every Backup invocation eventually returns, with a result or an
\* error, when DB.Backup returns once its writes complete or fail and Store
\* reads to EOF or returns an error; the caller never waits for ever on the
\* completion channel and the producer never blocks sending its outcome.
C27_BackupReturns ==
    /\ BackupRunning ~> BackupReturned
    /\ (BackupRunning /\ callerPc = "wait") ~> (callerPc # "wait")
    /\ ProducerSending ~> ~ProducerSending

\* A Backup has returned because Store failed while the producer, which had
\* not yet sent its outcome, went on to send it and to end.
C27_Witness ==
    /\ BackupReturned
    /\ result.err = "store"
    /\ prodPc = "done"
    /\ errCh # <<>>
    /\ produced # <<>>

\* ---------------------------------------------------- catalog integrity
\* The Incremental objects of the storage, by their stored metadata.
IncrementalObjects ==
    {p \in DOMAIN storage : MetaGet(storage[p].meta, "backup_type") = Incremental}

\* The catalog lists a Full backup with this id.
FullInCatalog(id) ==
    \E i \in 1..Len(ListBackups(provider, storage)) :
        /\ ListBackups(provider, storage)[i].ID = id
        /\ ListBackups(provider, storage)[i].Type = Full

\* C28: every Incremental object of the storage records a base_backup id that
\* identifies a Full backup still present in the catalog; no sequence of
\* Backup and DeleteBackup calls leaves an incremental whose base is gone.
C28_BasePresent ==
    \A p \in IncrementalObjects :
        FullInCatalog(MetaGet(storage[p].meta, "base_backup"))

\* The backup_id the stored metadata of an object carries ("" when none).
StoredId(store, p) == MetaGet(store[p].meta, "backup_id")

\* GetBackup has returned a record.
GetReturnedRecord == inv.op = "get" /\ callerPc = "returned" /\ ~result.isNil

\* The record GetBackup(id) returned is that of an object whose stored
\* metadata carries the id.
GetSelectsById ==
    GetReturnedRecord =>
        /\ result.StoragePath \in DOMAIN storage
        /\ StoredId(storage, result.StoragePath) = inv.base

\* The objects DeleteBackup(id) removed carried the id in their stored
\* metadata.
DeleteSelectsById ==
    (inv'.op = "delete" /\ nOps' = nOps + 1) =>
        \A p \in DOMAIN storage \ DOMAIN storage' : StoredId(storage, p) = inv'.base

\* C29: GetBackup(id) and DeleteBackup(id) only ever select an object whose
\* stored metadata contains a backup_id equal to the requested id; called
\* with the empty string they never return and never delete a backup file
\* that carries no backup metadata.
C29_SelectOnlyById ==
    []GetSelectsById /\ [][DeleteSelectsById]_vars

\* ------------------------------------------- concurrent calls of a restorer
\* The calls made to one SelectiveRestorer in a behaviour.
MaxRestorerOps == 3

RestorerOps == {"restore", "get", "list"}

\* What becomes of an access to the map r.restores. An access that overlaps a
\* write of another goroutine is a data race: the write may take effect, the
\* entry may be lost, or the runtime stops the process ("fatal error:
\* concurrent map writes", "concurrent map read and map write").
AccessOutcomes == {"done", "lost", "fatal"}

\* The frame of a step of a restorer call.
nonRestorerVars == <<provider, storage, now, usedIds, nOps, compressOpt, inv, callerPc,
                     prodPc, prodErr, errCh, pending, wclosed, produced, received,
                     consErr, result, calls, ctxCancelled, sigPc, conn, sched>>

\* The ids Restore has generated so far.
IssuedIds == {RestoreId(k) : k \in 1..rcalls.n}

\* GetRestore(id): the entry of the map, if there is one.
GetRestore(reg, id) == IF id \in DOMAIN reg THEN {reg[id]} ELSE {}

\* ListRestores(): every entry of the map.
ListRestores(reg) == {reg[i] : i \in DOMAIN reg}

\* The goroutines that are writing the map.
Writing == {u \in Threads : rcalls.thr[u].pc = "writing"}

\* A goroutine calls Restore, GetRestore(id) or ListRestores. Restore looks
\* the backup up (found or not), generates its id and builds its result.
RCall(t, op, found, id) ==
    /\ ~rcalls.fatal
    /\ rcalls.thr[t].pc \in {"idle", "done"}
    /\ rcalls.n < MaxRestorerOps
    /\ rcalls' = [rcalls EXCEPT !.n = rcalls.n + 1,
                     !.thr[t] =
                        IF op = "restore"
                        THEN IF found
                             THEN [NoRCall EXCEPT !.pc = "register", !.op = op,
                                      !.id = RestoreId(rcalls.n + 1)]
                             ELSE [NoRCall EXCEPT !.pc = "done", !.op = op]
                        ELSE [NoRCall EXCEPT !.pc = "read", !.op = op,
                                 !.id = IF op = "get" THEN id ELSE ""]]
    /\ UNCHANGED <<restores, nonRestorerVars>>

\* r.restores[restoreID] = result begins. No lock is taken: the write
\* overlaps the writes that are under way.
RRegisterBegin(t) ==
    /\ ~rcalls.fatal
    /\ rcalls.thr[t].pc = "register"
    /\ rcalls' = [rcalls EXCEPT !.thr =
                     [u \in Threads |->
                        IF u = t
                        THEN [rcalls.thr[u] EXCEPT !.pc = "writing",
                                                   !.raced = Writing # {}]
                        ELSE IF u \in Writing
                        THEN [rcalls.thr[u] EXCEPT !.raced = TRUE]
                        ELSE rcalls.thr[u]]]
    /\ UNCHANGED <<restores, nonRestorerVars>>

\* r.restores[restoreID] = result ends.
RRegisterEnd(t, outcome) ==
    LET me == rcalls.thr[t] IN
    /\ ~rcalls.fatal
    /\ me.pc = "writing"
    /\ outcome = "done" \/ me.raced
    /\ restores' = IF outcome = "done" THEN (me.id :> me.res) @@ restores
                   ELSE restores
    /\ rcalls' = IF outcome = "fatal"
                 THEN [rcalls EXCEPT !.fatal = TRUE]
                 ELSE [rcalls EXCEPT !.thr[t].pc = "run"]
    /\ UNCHANGED nonRestorerVars

\* The rest of Restore: the transfer succeeds or fails and the result, which
\* the map holds by pointer, is completed and returned.
RFinish(t, ok) ==
    LET me == rcalls.thr[t]
        res == [Success |-> ok, ErrorMessage |-> IF ok THEN "" ELSE "restore"]
    IN
    /\ ~rcalls.fatal
    /\ me.pc = "run"
    /\ restores' = IF me.id \in DOMAIN restores
                   THEN [restores EXCEPT ![me.id] = res]
                   ELSE restores
    /\ rcalls' = [rcalls EXCEPT !.thr[t].pc = "done", !.thr[t].res = res]
    /\ UNCHANGED nonRestorerVars

\* The map read of GetRestore and the range loop of ListRestores.
RRead(t, outcome) ==
    LET me == rcalls.thr[t] IN
    /\ ~rcalls.fatal
    /\ me.pc = "read"
    /\ outcome # "lost"
    /\ outcome = "done" \/ Writing # {}
    /\ rcalls' = IF outcome = "fatal"
                 THEN [rcalls EXCEPT !.fatal = TRUE]
                 ELSE [rcalls EXCEPT !.thr[t].pc = "done",
                          !.thr[t].got = IF me.op = "get"
                                         THEN GetRestore(restores, me.id)
                                         ELSE ListRestores(restores)]
    /\ UNCHANGED <<restores, nonRestorerVars>>

NextRestorer ==
    \E t \in Threads :
        \/ \E op \in RestorerOps, found \in BOOLEAN, id \in IssuedIds \cup {RestoreId(0)} :
              RCall(t, op, found, id)
        \/ RRegisterBegin(t)
        \/ \E o \in AccessOutcomes : RRegisterEnd(t, o)
        \/ \E ok \in BOOLEAN : RFinish(t, ok)
        \/ \E o \in AccessOutcomes : RRead(t, o)

SpecRestorer == Init /\ [][NextRestorer]_vars

\* The Restore calls that got past the lookup and past the registration.
Registered ==
    {t \in Threads : rcalls.thr[t].op = "restore" /\ rcalls.thr[t].pc \in {"run", "done"}
                     /\ rcalls.thr[t].id # ""}

\* C30: every Restore call that gets past the backup lookup records its
\* result in the registry under its own fresh id, and GetRestore(result.ID)
\* and ListRestores return that result whether the restore succeeded or
\* failed, for every interleaving of concurrent Restore, GetRestore and
\* ListRestores calls on one restorer: no entry is lost or corrupted.
C30_RestoreRegistered ==
    /\ ~rcalls.fatal
    /\ \A t \in Registered :
          /\ GetRestore(restores, rcalls.thr[t].id) = {rcalls.thr[t].res}
          /\ rcalls.thr[t].res \in ListRestores(restores)
    /\ \A t, u \in Registered : t # u => rcalls.thr[t].id # rcalls.thr[u].id

====
